---------------------------- MODULE Spec2Model ----------------------------
(***************************************************************************)
(* pasteJSON (src/src/main.rs): generation of C# classes from a parsed     *)
(* JSON value.  ClassGenerator::generate emits the Root class and then     *)
(* drains the queue `todos` of (class name, object) pairs that find_type   *)
(* fills while the properties of a class are written.                      *)
(*                                                                         *)
(* The output text is kept as the sequence of its lines, and a line as the  *)
(* sequence of the pieces its format string puts together: the text of a   *)
(* line is the concatenation of its pieces, followed by a newline (see     *)
(* Render).  A JSON key is a sequence of characters; a character is a      *)
(* one-character string.                                                   *)
(***************************************************************************)
EXTENDS Integers, Sequences, FiniteSets, TLC

(***************************************************************************)
(* Bounds of the model.                                                    *)
(***************************************************************************)
\* the largest number of JSON values (nodes) in an input document
MaxNodes == 4
\* the number of calls of generate on the same parsed value
MaxRuns == 2

(***************************************************************************)
(* Characters and keys.                                                    *)
(***************************************************************************)
\* the characters of the model's keys: ASCII letters (one byte each in UTF-8)
\* and letters outside ASCII (two bytes each)
Ascii == {"a", "b", "A", "B"}
NonAscii == {"é", "É"}

\* u8::to_ascii_lowercase, u8::to_ascii_uppercase on one character
char_to_ascii_lowercase(c) ==
  CASE c = "A" -> "a"
    [] c = "B" -> "b"
    [] OTHER -> c

char_to_ascii_uppercase(c) ==
  CASE c = "a" -> "A"
    [] c = "b" -> "B"
    [] OTHER -> c

\* the number of bytes of a character in UTF-8
Utf8Len(c) == IF c \in Ascii THEN 1 ELSE IF c \in NonAscii THEN 2 ELSE 0

\* the String a sequence of characters spells
RECURSIVE Text(_)
Text(cs) == IF cs = <<>> THEN "" ELSE cs[1] \o Text(Tail(cs))

\* the keys of the model's objects, in the order of their UTF-8 bytes, which
\* is the iteration order of serde_json's Map: "Ab" < "ab" < "éÉ"
KeyList == << <<"A", "b">>, <<"a", "b">>, <<"é", "É">> >>

(***************************************************************************)
(* serde_json::Value.  Every value is a record of the same shape: kind is  *)
(* the variant, num the Number's representation, elems an Array's elements *)
(* and ents an Object's entries [key, val] in iteration order.             *)
(***************************************************************************)
NoNum == [tag |-> "None", mag |-> <<>>, frac |-> 0]
MkValue(k, n, es, ps) == [kind |-> k, num |-> n, elems |-> es, ents |-> ps]

VString == MkValue("String", NoNum, <<>>, <<>>)
VBool == MkValue("Bool", NoNum, <<>>, <<>>)
VNull == MkValue("Null", NoNum, <<>>, <<>>)
VNumber(n) == MkValue("Number", n, <<>>, <<>>)
VArray(es) == MkValue("Array", NoNum, es, <<>>)
VObject(ps) == MkValue("Object", NoNum, <<>>, ps)

\* serde_json's Number is PosInt(u64), NegInt(i64) or Float(f64).  mag is the
\* magnitude as four 16-bit limbs (0..65535), most significant first; frac is
\* the first decimal digit of a Float's fractional part.
PosInt(m) == [tag |-> "PosInt", mag |-> m, frac |-> 0]
NegInt(m) == [tag |-> "NegInt", mag |-> m, frac |-> 0]
Float(m, f) == [tag |-> "Float", mag |-> m, frac |-> f]

\* 5, i64::MAX, i64::MAX + 1, u64::MAX
Mag5 == <<0, 0, 0, 5>>
MagI64Max == <<32767, 65535, 65535, 65535>>
MagI64MaxPlus1 == <<32768, 0, 0, 0>>
MagU64Max == <<65535, 65535, 65535, 65535>>

Numbers ==
  {PosInt(Mag5), PosInt(MagI64Max), PosInt(MagI64MaxPlus1), PosInt(MagU64Max),
   NegInt(Mag5), NegInt(MagI64MaxPlus1), Float(Mag5, 0), Float(Mag5, 5)}

(***************************************************************************)
(* The input documents: every value of at most MaxNodes nodes over a few   *)
(* leaves, arrays of at most two elements and objects of at most two       *)
(* entries; the flat documents over every kind of leaf; and the nested     *)
(* documents, two objects side by side that hold objects themselves.       *)
(***************************************************************************)
Leaves == {VString, VNumber(PosInt(Mag5)), VNull}
RichLeaves == {VString, VBool} \cup {VNumber(n) : n \in Numbers}

Entry(k, v) == [key |-> KeyList[k], val |-> v]
KeyIdx == 1..Len(KeyList)

\* the values of exactly n nodes
Exact[n \in 1..MaxNodes] ==
  IF n = 1
  THEN Leaves \cup {VArray(<<>>), VObject(<<>>)}
  ELSE {VArray(<<x>>) : x \in Exact[n - 1]}
       \cup UNION {{VArray(<<x, y>>) : x \in Exact[i], y \in Exact[n - 1 - i]} :
                     i \in 1..(n - 2)}
       \cup {VObject(<<Entry(k, x)>>) : k \in KeyIdx, x \in Exact[n - 1]}
       \cup UNION {{VObject(<<Entry(k[1], x), Entry(k[2], y)>>) :
                       k \in {kk \in KeyIdx \X KeyIdx : kk[1] < kk[2]},
                       x \in Exact[i], y \in Exact[n - 1 - i]} :
                     i \in 1..(n - 2)}

FlatDocuments ==
  RichLeaves
  \cup {VObject(<<Entry(k, x)>>) : k \in KeyIdx, x \in RichLeaves}
  \cup {VObject(<<Entry(1, x), Entry(2, y)>>) : x \in RichLeaves, y \in RichLeaves}

\* an object of at most two entries, each an empty object
SmallObjects ==
  {VObject(<<>>)}
  \cup {VObject(<<Entry(k, VObject(<<>>))>>) : k \in KeyIdx}
  \cup {VObject(<<Entry(k[1], VObject(<<>>)), Entry(k[2], VObject(<<>>))>>) :
          k \in {kk \in KeyIdx \X KeyIdx : kk[1] < kk[2]}}

NestedDocuments ==
  {VObject(<<Entry(k[1], x), Entry(k[2], y)>>) :
     k \in {kk \in KeyIdx \X KeyIdx : kk[1] < kk[2]},
     x \in SmallObjects, y \in SmallObjects}

Documents ==
  UNION {Exact[n] : n \in 1..MaxNodes} \cup FlatDocuments \cup NestedDocuments

ShortDocuments ==
  UNION {Exact[n] : n \in 1..(MaxNodes - 1)} \cup FlatDocuments \cup NestedDocuments

(***************************************************************************)
(* CSharpType and the helpers of ClassGenerator.                           *)
(***************************************************************************)
Primitive(s) == [variant |-> "Primitive", name |-> s]
Custom(s) == [variant |-> "Custom", name |-> s]

\* CSharpType::as_str (and Display, which writes the same text)
as_str(t) == t.name

\* every integer taken for an i64
is_i64_unchecked(n) == n.tag \in {"PosInt", "NegInt"}

\* Number::is_i64: a PosInt up to i64::MAX, or any NegInt
I64MaxTopLimb == 32767
is_i64(n) ==
  CASE n.tag = "PosInt" -> n.mag[1] <= I64MaxTopLimb
    [] n.tag = "NegInt" -> TRUE
    [] OTHER -> FALSE

\* Number::is_f64: a Float
is_f64(n) == n.tag = "Float"

\* the name as it is
to_owned(name) == name

\* str::to_ascii_lowercase
to_ascii_lowercase(name) == [i \in 1..Len(name) |-> char_to_ascii_lowercase(name[i])]

\* ClassGenerator::titlecase: res.get_mut(0..1) is Some only when the string
\* is not empty and byte 1 is a character boundary
titlecase(name) ==
  IF name # <<>> /\ Utf8Len(name[1]) = 1
  THEN <<char_to_ascii_uppercase(name[1])>> \o Tail(name)
  ELSE name

\* str::repeat
RECURSIVE repeat(_, _)
repeat(s, n) == IF n = 0 THEN "" ELSE s \o repeat(s, n - 1)

\* a queue that merges the work items of one name
push_back_merging(q, item) ==
  IF \E i \in 1..Len(q) : q[i].name = item.name THEN q ELSE Append(q, item)

\* a queue that takes new work items at its front
push_front(q, item) == <<item>> \o q

\* VecDeque::push_back, VecDeque::pop_front on todos
push_back(q, item) == Append(q, item)
front(q) == Head(q)
pop_front(q) == Tail(q)

\* an empty array taken for an array of strings
RECURSIVE descend_defaulting(_, _)
descend_defaulting(curr, bracket_count) ==
  IF curr.kind = "Array"
  THEN IF curr.elems = <<>>
       THEN [panic |-> FALSE, curr |-> VString, bracket_count |-> bracket_count]
       ELSE descend_defaulting(curr.elems[1], bracket_count + 1)
  ELSE [panic |-> FALSE, curr |-> curr, bracket_count |-> bracket_count]

\* the descent by the last element of every array
RECURSIVE descend_last(_, _)
descend_last(curr, bracket_count) ==
  IF curr.kind = "Array"
  THEN IF curr.elems = <<>>
       THEN [panic |-> TRUE, curr |-> curr, bracket_count |-> bracket_count]
       ELSE descend_last(curr.elems[Len(curr.elems)], bracket_count + 1)
  ELSE [panic |-> FALSE, curr |-> curr, bracket_count |-> bracket_count]

\* the loop of flatten_type: descend into the first element while the current
\* value is an array; a.first().unwrap() panics on an empty array
RECURSIVE descend(_, _)
descend(curr, bracket_count) ==
  IF curr.kind = "Array"
  THEN IF curr.elems = <<>>
       THEN [panic |-> TRUE, curr |-> curr, bracket_count |-> bracket_count]
       ELSE descend(curr.elems[1], bracket_count + 1)
  ELSE [panic |-> FALSE, curr |-> curr, bracket_count |-> bracket_count]

\* the type of a Number
number_type(num) ==
  IF is_i64(num) THEN Primitive("int")
  ELSE IF is_f64(num) THEN Primitive("float")
  ELSE Primitive("uint")

\* ClassGenerator::find_type and ClassGenerator::flatten_type on the entry
\* (key, value) with the queue todos: the type, the queue afterwards and
\* whether the call panicked
RECURSIVE find_type(_, _, _)

\* one pair of brackets whatever the depth
flatten_type_single(todos, key, value) ==
  LET d == descend(value, 0) IN
  IF d.panic
  THEN [panic |-> TRUE, text |-> "", todos |-> todos]
  ELSE LET r == find_type(todos, key, d.curr) IN
       IF r.panic
       THEN [panic |-> TRUE, text |-> "", todos |-> r.todos]
       ELSE [panic |-> FALSE, text |-> as_str(r.type) \o "[]", todos |-> r.todos]

flatten_type(todos, key, value) ==
  LET d == descend(value, 0) IN
  IF d.panic
  THEN [panic |-> TRUE, text |-> "", todos |-> todos]
  ELSE LET r == find_type(todos, key, d.curr) IN
       IF r.panic
       THEN [panic |-> TRUE, text |-> "", todos |-> r.todos]
       ELSE [panic |-> FALSE,
             text |-> as_str(r.type) \o repeat("[]", d.bracket_count),
             todos |-> r.todos]

find_type(todos, key, value) ==
  CASE value.kind = "String" ->
         [panic |-> FALSE, type |-> Primitive("string"), todos |-> todos]
    [] value.kind = "Number" ->
         [panic |-> FALSE, type |-> number_type(value.num), todos |-> todos]
    [] value.kind = "Bool" ->
         [panic |-> FALSE, type |-> Primitive("bool"), todos |-> todos]
    [] value.kind = "Array" ->
         LET f == flatten_type(todos, key, value) IN
         [panic |-> f.panic, type |-> Custom(f.text), todos |-> f.todos]
    [] value.kind = "Object" ->
         LET class_name == Text(titlecase(key)) IN
         [panic |-> FALSE, type |-> Custom(class_name),
          todos |-> push_back(todos, [name |-> class_name, node |-> value.ents])]
    [] OTHER ->  \* Value::Null => unreachable!()
         [panic |-> TRUE, type |-> Primitive(""), todos |-> todos]

\* the line generate_properties writes for one entry
property_line(type, varname) ==
  <<"    public ", as_str(type), " ", Text(varname), " { get; set; }">>

\* the lines that declare a class: Root's, and a queued class's (which
\* starts with an empty line)
root_declaration == << <<"public class Root">>, <<"{">> >>
class_declaration(class) == << <<"">>, <<"public class ", class>>, <<"{">> >>
closing_brace == <<"}">>

\* ClassGenerator::generate_properties from entry i of root on
RECURSIVE properties_from(_, _, _, _)
properties_from(root, i, out, todos) ==
  IF i > Len(root)
  THEN [panic |-> FALSE, out |-> out, todos |-> todos]
  ELSE LET class == find_type(todos, root[i].key, root[i].val)
           varname == to_ascii_lowercase(root[i].key)
       IN IF class.panic
          THEN [panic |-> TRUE, out |-> out, todos |-> class.todos]
          ELSE properties_from(root, i + 1,
                               Append(out, property_line(class.type, varname)),
                               class.todos)

generate_properties(root, out, todos) == properties_from(root, 1, out, todos)

\* any value taken for an object
as_object_unchecked(value) == [some |-> TRUE, map |-> value.ents]

\* Value::as_object
as_object(value) ==
  IF value.kind = "Object"
  THEN [some |-> TRUE, map |-> value.ents]
  ELSE [some |-> FALSE, map |-> <<>>]

(***************************************************************************)
(* The state.                                                              *)
(***************************************************************************)
VARIABLES
  ast,      \* the parsed JSON value given to generate
  pc,       \* where the run is: Idle, EmittingRoot, DrainingQueue, Done, Err, Panicked
  todos,    \* ClassGenerator.todos
  out,      \* the local output builder of generate, as its lines
  result,   \* what generate returned: None, Ok with the text, or Err
  run,      \* the number of the call of generate on ast
  first,    \* what the first call returned
  cur,      \* the object whose properties were generated last
  blk,      \* what that call of generate_properties did
  npush,    \* the work items find_type has pushed in this run
  npop      \* the work items generate has popped in this run

vars == <<ast, pc, todos, out, result, run, first, cur, blk, npush, npop>>

NoResult == [tag |-> "None", text |-> <<>>]
OkResult(lines) == [tag |-> "Ok", text |-> lines]
ErrResult == [tag |-> "Err", text |-> <<>>]
NoBlock == [panic |-> FALSE, lines |-> <<>>, pushed |-> <<>>]

\* a new generator and a parsed document, before generate is called
Start(documents) ==
  /\ ast \in documents
  /\ pc = "Idle"
  /\ todos = <<>>
  /\ out = <<>>
  /\ result = NoResult
  /\ run = 1
  /\ first = NoResult
  /\ cur = <<>>
  /\ blk = NoBlock
  /\ npush = 0
  /\ npop = 0

Init == Start(Documents)

\* the lines and the work items a call of generate_properties added
BlockOf(r, out0, todos0) ==
  [panic |-> r.panic,
   lines |-> SubSeq(r.out, Len(out0) + 1, Len(r.out)),
   pushed |-> SubSeq(r.todos, Len(todos0) + 1, Len(r.todos))]

\* the output builder kept from the call before
BeginAppending ==
  /\ pc = "Idle"
  /\ LET root == as_object(ast) IN
     IF root.some
     THEN /\ out' = out \o root_declaration
          /\ pc' = "EmittingRoot"
          /\ result' = result
     ELSE /\ out' = out
          /\ pc' = "Err"
          /\ result' = ErrResult
  /\ UNCHANGED <<ast, todos, run, first, cur, blk, npush, npop>>

\* generate, up to the declaration of the Root class, with a new output
\* builder: a value that is no object is the error fmt::Error
Begin ==
  /\ pc = "Idle"
  /\ LET root == as_object(ast) IN
     IF root.some
     THEN /\ out' = root_declaration
          /\ pc' = "EmittingRoot"
          /\ result' = result
     ELSE /\ out' = <<>>
          /\ pc' = "Err"
          /\ result' = ErrResult
  /\ UNCHANGED <<ast, todos, run, first, cur, blk, npush, npop>>

\* the properties of the Root class and its closing brace
EmitRoot ==
  /\ pc = "EmittingRoot"
  /\ LET root == as_object(ast).map
         r == generate_properties(root, out, todos)
     IN /\ cur' = root
        /\ blk' = BlockOf(r, out, todos)
        /\ todos' = r.todos
        /\ npush' = npush + (Len(r.todos) - Len(todos))
        /\ IF r.panic
           THEN /\ pc' = "Panicked"
                /\ out' = <<>>
           ELSE /\ pc' = "DrainingQueue"
                /\ out' = Append(r.out, closing_brace)
  /\ UNCHANGED <<ast, result, run, first, npop>>

\* one turn of the loop: pop the front work item and write its class
DrainOne ==
  /\ pc = "DrainingQueue"
  /\ todos # <<>>
  /\ LET item == front(todos)
         rest == pop_front(todos)
         out1 == out \o class_declaration(item.name)
         r == generate_properties(item.node, out1, rest)
     IN /\ cur' = item.node
        /\ blk' = BlockOf(r, out1, rest)
        /\ todos' = r.todos
        /\ npush' = npush + (Len(r.todos) - Len(rest))
        /\ npop' = npop + 1
        /\ IF r.panic
           THEN /\ pc' = "Panicked"
                /\ out' = <<>>
           ELSE /\ pc' = "DrainingQueue"
                /\ out' = Append(r.out, closing_brace)
  /\ UNCHANGED <<ast, result, run, first>>

\* the loop left after its first turn
FinishAfterOne ==
  /\ pc = "DrainingQueue"
  /\ todos = <<>> \/ npop >= 1
  /\ pc' = "Done"
  /\ result' = OkResult(out)
  /\ UNCHANGED <<ast, todos, out, run, first, cur, blk, npush, npop>>

\* the queue is empty: generate returns Ok(out)
Finish ==
  /\ pc = "DrainingQueue"
  /\ todos = <<>>
  /\ pc' = "Done"
  /\ result' = OkResult(out)
  /\ UNCHANGED <<ast, todos, out, run, first, cur, blk, npush, npop>>

\* generate is called again on the same value, with the same generator
Reuse ==
  /\ pc \in {"Done", "Err"}
  /\ run < MaxRuns
  /\ pc' = "Idle"
  /\ run' = run + 1
  /\ first' = IF run = 1 THEN result ELSE first
  /\ result' = NoResult
  /\ cur' = <<>>
  /\ blk' = NoBlock
  /\ npush' = 0
  /\ npop' = 0
  /\ UNCHANGED <<ast, todos, out>>

\* generate is called again on the same value, with ClassGenerator::new()
Fresh ==
  /\ pc \in {"Done", "Err"}
  /\ run < MaxRuns
  /\ pc' = "Idle"
  /\ run' = run + 1
  /\ first' = IF run = 1 THEN result ELSE first
  /\ result' = NoResult
  /\ todos' = <<>>
  /\ cur' = <<>>
  /\ blk' = NoBlock
  /\ npush' = 0
  /\ npop' = 0
  /\ UNCHANGED <<ast, out>>

Next == Begin \/ EmitRoot \/ DrainOne \/ Finish \/ Reuse \/ Fresh

Spec == Init /\ [][Next]_vars

\* a run that has started goes on to its end: generate is one synchronous
\* call.  The documents of this specification are those of fewer than
\* MaxNodes nodes, with the flat and the nested ones.
InitFair == Start(ShortDocuments)
FairSpec ==
  InitFair /\ [][Next]_vars /\ WF_vars(Begin \/ EmitRoot \/ DrainOne \/ Finish)

(***************************************************************************)
(* What the properties below are stated with: the document as a tree, read *)
(* without the queue, and the output text read back block by block.        *)
(***************************************************************************)
\* the value a chain of first elements ends in, and the arrays on the chain
RECURSIVE ChainBase(_)
ChainBase(v) ==
  IF v.kind = "Array" /\ v.elems # <<>> THEN ChainBase(Head(v.elems)) ELSE v

RECURSIVE ChainDepth(_)
ChainDepth(v) ==
  IF v.kind = "Array" /\ v.elems # <<>> THEN 1 + ChainDepth(Head(v.elems)) ELSE 0

\* a value whose type cannot be resolved: its chain ends in Null or in an
\* empty array
Unresolvable(v) == ChainBase(v).kind \in {"Null", "Array"}

\* the class name of the property named key: its first character upper-cased
\* when that is an ASCII letter; a first character outside ASCII stays
UpperOf == ("a" :> "A") @@ ("b" :> "B")
ClassNameOf(key) ==
  IF key = <<>> THEN ""
  ELSE IF Head(key) \in DOMAIN UpperOf
       THEN UpperOf[Head(key)] \o Text(Tail(key))
       ELSE Text(key)

\* the objects the entries of an object refer to, in the order of the entries
HoldsObject(e) == ChainBase(e.val).kind = "Object"
ChildOf(e) == [name |-> ClassNameOf(e.key), node |-> ChainBase(e.val).ents]
RECURSIVE Children(_)
Children(ents) ==
  IF ents = <<>> THEN <<>>
  ELSE (IF HoldsObject(Head(ents)) THEN <<ChildOf(Head(ents))>> ELSE <<>>)
       \o Children(Tail(ents))

\* the objects below an object, depth first
RECURSIVE Descendants(_)
Descendants(ents) ==
  IF ents = <<>> THEN <<>>
  ELSE (IF HoldsObject(Head(ents))
        THEN <<ChildOf(Head(ents))>> \o Descendants(ChildOf(Head(ents)).node)
        ELSE <<>>)
       \o Descendants(Tail(ents))

\* the objects of a document level by level: the objects of one level, then
\* those of the next
RECURSIVE ChildrenOfAll(_)
ChildrenOfAll(level) ==
  IF level = <<>> THEN <<>>
  ELSE Children(Head(level).node) \o ChildrenOfAll(Tail(level))

RECURSIVE LevelOrder(_)
LevelOrder(level) ==
  IF level = <<>> THEN <<>> ELSE level \o LevelOrder(ChildrenOfAll(level))

\* a Null or an empty array where a type must be resolved, in this object or
\* in an object below it
RECURSIVE ReachesUnresolvable(_)
ReachesUnresolvable(ents) ==
  \E i \in 1..Len(ents) :
    \/ Unresolvable(ents[i].val)
    \/ HoldsObject(ents[i]) /\ ReachesUnresolvable(ChainBase(ents[i].val).ents)

Count(seq, Test(_)) == Len(SelectSeq(seq, Test))

\* the lines of the text, by their form
IsRootDeclaration(line) == line = <<"public class Root">>
IsClassDeclaration(line) ==
  IsRootDeclaration(line) \/ (Len(line) = 2 /\ line[1] = "public class ")
DeclaredName(line) == IF IsRootDeclaration(line) THEN "Root" ELSE line[2]
IsPropertyLine(line) ==
  /\ Len(line) = 5
  /\ line[1] = "    public "
  /\ line[3] = " "
  /\ line[5] = " { get; set; }"

\* the class blocks of a text: the name each declares and the number of its
\* property lines
RECURSIVE BlocksOf(_, _)
BlocksOf(lines, blocks) ==
  IF lines = <<>> THEN blocks
  ELSE LET l == Head(lines) IN
       BlocksOf(Tail(lines),
         IF IsClassDeclaration(l)
         THEN Append(blocks, [name |-> DeclaredName(l), props |-> 0])
         ELSE IF IsPropertyLine(l) /\ blocks # <<>>
         THEN [blocks EXCEPT ![Len(blocks)].props = @ + 1]
         ELSE blocks)

Blocks(lines) == BlocksOf(lines, <<>>)
Named(b) == [name |-> b.name, props |-> Len(b.node)]
NamedAll(objs) == [i \in 1..Len(objs) |-> Named(objs[i])]

\* the text the lines stand for
RECURSIVE Render(_)
Render(lines) ==
  IF lines = <<>> THEN "" ELSE Text(Head(lines)) \o "\n" \o Render(Tail(lines))

(***************************************************************************)
(* C1.  When generate returns its text for an object, the text holds one   *)
(* class block for Root and one for every object found below it, each      *)
(* occurrence counted: as many blocks carry a name as objects were found   *)
(* under it (two objects of the same derived name give two blocks), every  *)
(* block is closed, and the queue received exactly the objects found, not  *)
(* Root.                                                                   *)
(***************************************************************************)
ClassNames == {ClassNameOf(KeyList[k]) : k \in KeyIdx}

C1_OneBlockPerObject ==
  pc = "Done" =>
    LET blocks == Blocks(result.text)
        found == Descendants(ast.ents)
    IN /\ Len(blocks) = 1 + Len(found)
       /\ blocks[1].name = "Root"
       /\ Count(result.text, IsRootDeclaration) = 1
       /\ Count(result.text, LAMBDA l : l = closing_brace) = Len(blocks)
       /\ \A n \in ClassNames :
            Count(blocks, LAMBDA b : b.name = n)
              = Count(found, LAMBDA o : o.name = n)
       /\ npush = Len(found)
       /\ npop = Len(found)

\* two objects of the same derived name were found, and both have their block
C1_Witness ==
  /\ pc = "Done"
  /\ \E n \in ClassNames :
       /\ Count(Descendants(ast.ents), LAMBDA o : o.name = n) = 2
       /\ Count(Blocks(result.text), LAMBDA b : b.name = n) = 2

(***************************************************************************)
(* C2.  The class blocks of the returned text are in breadth-first order:  *)
(* Root, then the objects Root refers to in the order of its entries, then *)
(* the objects those refer to, and so on level by level; and the queue     *)
(* always holds objects in the order they were found.                      *)
(***************************************************************************)
C2_BreadthFirstOrder ==
  pc = "Done" =>
    Blocks(result.text)
      = NamedAll(LevelOrder(<<[name |-> "Root", node |-> ast.ents]>>))

\* two objects side by side, each holding an object: the second is written
\* before the object the first one holds
C2_Witness ==
  /\ pc = "Done"
  /\ Len(Children(ast.ents)) = 2
  /\ \A i \in 1..2 : Children(Children(ast.ents)[i].node) # <<>>
  /\ Children(ast.ents)[1].name # Children(ast.ents)[2].name

(***************************************************************************)
(* C3.  A run on an object without Null and without empty array where a    *)
(* type is resolved goes Idle, EmittingRoot, DrainingQueue, Done and       *)
(* reaches Done; when the text is returned the queue is empty and as many  *)
(* work items were popped as were pushed.                                  *)
(***************************************************************************)
Resolvable(v) == v.kind = "Object" /\ ~ReachesUnresolvable(v.ents)

RunSteps ==
  {<<"Idle", "EmittingRoot">>, <<"EmittingRoot", "DrainingQueue">>,
   <<"DrainingQueue", "DrainingQueue">>, <<"DrainingQueue", "Done">>,
   <<"Done", "Idle">>}

C3_RunReachesDone ==
  /\ [][Resolvable(ast) => <<pc, pc'>> \in RunSteps]_vars
  /\ [](pc = "Done" => todos = <<>> /\ npop = npush /\ result.tag = "Ok")
  /\ (pc = "Idle" /\ Resolvable(ast)) ~> (pc = "Done")

\* a run that popped several work items has returned
C3_Witness == pc = "Done" /\ Resolvable(ast) /\ npop >= 3 /\ todos = <<>>

(***************************************************************************)
(* C4.  Given a value that is no object, generate returns the error at     *)
(* once: it does not panic, the queue stays empty and no text with a Root  *)
(* block is built or returned.  The error is returned for no object.       *)
(***************************************************************************)
C4_NonObjectIsError ==
  /\ (ast.kind # "Object" /\ pc # "Idle") =>
       /\ pc = "Err"
       /\ result = ErrResult
       /\ todos = <<>>
       /\ npush = 0
       /\ Count(out, IsRootDeclaration) = 0
  /\ pc = "Err" => ast.kind # "Object"

\* an array with an object in it, at the top, is refused
C4_Witness ==
  pc = "Err" /\ ast.kind = "Array" /\ ChainBase(ast).kind = "Object"

(***************************************************************************)
(* C5.  A Null or an empty array where a type is resolved (as the value of *)
(* an entry of the root or of a queued object, or at the end of a chain of *)
(* first elements) is fatal: the run panics at the first such entry of the *)
(* object it is writing, nothing of the text built so far is returned, and *)
(* generate returns neither Ok nor Err for such a document.                *)
(***************************************************************************)
C5_UnresolvableIsFatal ==
  /\ (ast.kind = "Object" /\ ReachesUnresolvable(ast.ents)) =>
       (result.tag = "None" /\ pc \notin {"Done", "Err"})
  /\ pc = "Panicked" =>
       /\ result = NoResult
       /\ out = <<>>
       /\ blk.panic
       /\ Len(blk.lines) < Len(cur)
       /\ Unresolvable(cur[Len(blk.lines) + 1].val)
       /\ \A j \in 1..Len(blk.lines) : ~Unresolvable(cur[j].val)
  /\ pc \in {"DrainingQueue", "Done"} =>
       \A j \in 1..Len(cur) : ~Unresolvable(cur[j].val)

\* the panic is in a queued object, after lines of its block were written
C5_Witness ==
  /\ pc = "Panicked"
  /\ npop >= 1
  /\ Len(blk.lines) >= 1
  /\ ChainBase(cur[Len(blk.lines) + 1].val).kind = "Array"

(***************************************************************************)
(* C6.  The type written for an array that is not empty at any level of    *)
(* its chain of first elements is the type of the value the chain ends in, *)
(* followed by one "[]" for every array of the chain; when the chain ends  *)
(* in an object, that type is the key with its first character upper-cased *)
(* and one work item of that name, with the object's entries, is pushed    *)
(* for the entry.                                                          *)
(***************************************************************************)
\* the most significant limb decides whether a magnitude is at most i64::MAX
RECURSIVE AtMost(_, _)
AtMost(m, bound) ==
  \/ m = <<>>
  \/ Head(m) < Head(bound)
  \/ Head(m) = Head(bound) /\ AtMost(Tail(m), Tail(bound))

NumberClass(n) ==
  IF n.tag = "NegInt" \/ (n.tag = "PosInt" /\ AtMost(n.mag, MagI64Max))
  THEN "int"
  ELSE IF n.tag = "Float" THEN "float"
  ELSE "uint"

RECURSIVE TypeTextOf(_, _)
TypeTextOf(key, v) ==
  CASE v.kind = "Array" -> TypeTextOf(key, Head(v.elems)) \o "[]"
    [] v.kind = "Object" -> ClassNameOf(key)
    [] v.kind = "String" -> "string"
    [] v.kind = "Bool" -> "bool"
    [] v.kind = "Number" -> NumberClass(v.num)

\* the entries of cur whose lines were written
Written == 1..Len(blk.lines)

C7_NumberClassification ==
  \A i \in Written :
    cur[i].val.kind = "Number" =>
      /\ blk.lines[i][2] = NumberClass(cur[i].val.num)
      /\ blk.lines[i][2] = "uint" <=>
           (cur[i].val.num.tag = "PosInt" /\ ~AtMost(cur[i].val.num.mag, MagI64Max))
      /\ blk.lines[i][2] = "float" <=> cur[i].val.num.tag = "Float"

\* i64::MAX is an int and i64::MAX + 1 a uint
C7_Witness ==
  /\ Len(blk.lines) = 2
  /\ cur[1].val = VNumber(PosInt(MagI64Max)) /\ blk.lines[1][2] = "int"
  /\ cur[2].val = VNumber(PosInt(MagI64MaxPlus1)) /\ blk.lines[2][2] = "uint"

(***************************************************************************)
(* C8.  A second call of generate on the same value returns what the first *)
(* returned, the same text byte for byte, with a new generator and with    *)
(* the generator of the first call: every call starts with an empty queue. *)
(***************************************************************************)
C8_Idempotent ==
  /\ (run > 1 /\ pc \in {"Done", "Err"}) =>
       /\ result.tag = first.tag
       /\ Render(result.text) = Render(first.text)
  /\ pc = "Idle" => todos = <<>>

\* the second call has returned a text of several classes
C8_Witness == run = 2 /\ pc = "Done" /\ npop >= 2 /\ first.tag = "Ok"

(***************************************************************************)
(* C9.  Every entry of an object gives one line, in the order of the       *)
(* entries, of the form "    public <type> <name> { get; set; }".  As the  *)
(* claim has it, <name> is the key with every letter in lower case         *)
(* (C9_EveryLetterLowercased); as the code has it, <name> is the key with  *)
(* its ASCII upper-case letters in lower case and every other character,   *)
(* the upper-case letters outside ASCII among them, as it is               *)
(* (C9_AsciiLettersLowercased).                                            *)
(***************************************************************************)
LowerOf == ("A" :> "a") @@ ("B" :> "b") @@ ("É" :> "é")
Lowercased(key) ==
  Text([i \in 1..Len(key) |->
          IF key[i] \in DOMAIN LowerOf THEN LowerOf[key[i]] ELSE key[i]])
AsciiLowercased(key) ==
  Text([i \in 1..Len(key) |->
          IF key[i] \in {"A", "B"} THEN LowerOf[key[i]] ELSE key[i]])

LinePerEntry ==
  /\ \A i \in Written : IsPropertyLine(blk.lines[i])
  /\ ~blk.panic => Len(blk.lines) = Len(cur)

C9_EveryLetterLowercased ==
  /\ LinePerEntry
  /\ \A i \in Written : blk.lines[i][4] = Lowercased(cur[i].key)

C9_AsciiLettersLowercased ==
  /\ LinePerEntry
  /\ \A i \in Written : blk.lines[i][4] = AsciiLowercased(cur[i].key)

\* a key with an ASCII upper-case letter and a key with one outside ASCII
C9_Witness ==
  /\ Len(blk.lines) = 2
  /\ cur[1].key = <<"A", "b">> /\ blk.lines[1][4] = "ab"
  /\ cur[2].key = <<"é", "É">> /\ blk.lines[2][4] = "éÉ"

(***************************************************************************)
(* C10.  Only the first element of an array is looked at: the lines        *)
(* written for an object, the work items pushed and whether the call       *)
(* panicked are those of the object with every array on a chain of first   *)
(* elements cut down to its first element.                                 *)
(***************************************************************************)
RECURSIVE FirstOnly(_)
FirstOnly(v) ==
  IF v.kind = "Array" /\ v.elems # <<>>
  THEN VArray(<<FirstOnly(Head(v.elems))>>)
  ELSE v

FirstOnlyAll(ents) ==
  [i \in 1..Len(ents) |-> [key |-> ents[i].key, val |-> FirstOnly(ents[i].val)]]

C10_OnlyFirstElements ==
  LET r == generate_properties(FirstOnlyAll(cur), <<>>, <<>>)
  IN blk = [panic |-> r.panic, lines |-> r.out, pushed |-> r.todos]

\* an array with a Null, an empty array or an object after its first element
\* is typed by the first element
C10_Witness ==
  /\ ~blk.panic
  /\ \E i \in Written :
       /\ cur[i].val.kind = "Array"
       /\ Len(cur[i].val.elems) = 2
       /\ cur[i].val.elems[1].kind = "String"
       /\ cur[i].val.elems[2].kind \in {"Null", "Array", "Object"}
       /\ blk.lines[i][2] = "string[]"
       /\ blk.pushed = <<>>

=============================================================================
